---- MODULE Spec2Model ----
(***************************************************************************)
(* Model of etl.py: the batch run of the __main__ block (read_csv, strip   *)
(* the header, read_config, input_missing_data, to_csv) with the           *)
(* imputation loop of input_missing_data taken one column per step.        *)
(*                                                                         *)
(* Values.  A cell of a frame is a record [t, v, s]: t = "null" is the     *)
(* NaN/None marker, t = "num" a number whose value is v / Scale (means,    *)
(* medians and interpolated values are fractions; Scale makes them         *)
(* integers), t = "str" a text value s, t = "spline" a number produced by  *)
(* a scipy quadratic/cubic spline (its value is not computed).             *)
(* A frame is a sequence of rows [idx, c]: idx is the pandas index label   *)
(* (the position of the row in the file), c the cells by column position.  *)
(***************************************************************************)
EXTENDS Integers, Sequences, FiniteSets, TLC

\* Bounds of the model.
MaxRows == 3

RECURSIVE Factorial(_)
Factorial(n) == IF n <= 1 THEN 1 ELSE n * Factorial(n - 1)

\* Every denominator that can occur with at most MaxRows rows divides Scale.
Scale == Factorial(MaxRows)

Null == [t |-> "null", v |-> 0, s |-> ""]
Num(n) == [t |-> "num", v |-> n, s |-> ""]
Str(x) == [t |-> "str", v |-> 0, s |-> x]
Spline == [t |-> "spline", v |-> 0, s |-> ""]

\* Series.isnull(): True for NaN/None only.
isnull(x) == x.t = "null"

\* ------------------------------------------------------------------------
\* The files the run reads.

\* Header of data/data.csv as written in the file: the second name carries
\* incidental whitespace.  A name is a sequence of characters.  The Date
\* column that line 79 parses as a date is not among the columns modelled.
Header == << <<"A">>, <<" ", "B", " ">> >>

NumCols == Len(Header)

\* The field texts of a numeric column and of a text column ("" is an empty
\* field).  The first column is numeric or text, the others are numeric.
NumCells(k) == IF k = 1 THEN {"", "1", "2"} ELSE {"", "1"}
TextCells(k) == IF k = 1 THEN {"", "x"} ELSE {""}

\* The files: n data rows, each column numeric or text.
CsvColumns(k, n) == [1..n -> NumCells(k)] \cup [1..n -> TextCells(k)]

CsvFilesOf(n) ==
    {file \in [1..NumCols -> UNION {CsvColumns(k, n) : k \in 1..NumCols}] :
        \A k \in 1..NumCols : file[k] \in CsvColumns(k, n)}

\* A file has at least one data row: read_csv infers the type of a column
\* from its fields.
CsvFiles == UNION {CsvFilesOf(n) : n \in 1..MaxRows}

\* str.strip() on a name.
RECURSIVE LStrip(_)
LStrip(name) ==
    IF name # <<>> /\ Head(name) = " " THEN LStrip(Tail(name)) ELSE name

RECURSIVE RStrip(_)
RStrip(name) ==
    IF name # <<>> /\ name[Len(name)] = " "
    THEN RStrip(SubSeq(name, 1, Len(name) - 1))
    ELSE name

strip(name) == LStrip(RStrip(name))

\* pd.read_csv on one field: an empty field is NaN (default na_values); in a
\* column whose non-empty fields are all numbers the field is that number,
\* otherwise it is the text itself.
IsNumberText(txt) == txt \in {"0", "1", "2"}

NumberOf(txt) == CASE txt = "0" -> 0 [] txt = "1" -> 1 [] txt = "2" -> 2

ParseCell(txt, numeric) ==
    IF txt = "" THEN Null
    ELSE IF numeric THEN Num(NumberOf(txt) * Scale)
    ELSE Str(txt)

ColumnIsNumeric(coltxt) ==
    \A r \in DOMAIN coltxt : coltxt[r] = "" \/ IsNumberText(coltxt[r])

NRows(file) == Len(file[1])

\* pd.read_csv: the frame of a file, index 0..n-1 (kept here as 1..n).
read_csv(file) ==
    [r \in 1..NRows(file) |->
        [idx |-> r,
         c |-> [k \in 1..NumCols |->
                   ParseCell(file[k][r], ColumnIsNumeric(file[k]))]]]

\* ------------------------------------------------------------------------
\* Series operations used by input_missing_data.

\* df[column]: the cells of column k in row order.
Column(df, k) == [r \in 1..Len(df) |-> df[r].c[k]]

\* Faulty variants of SetColumn: the assignment keeps only the rows the series has
\* a value for; the assignment writes the series into every column.
RECURSIVE KeepValued(_, _, _)
KeepValued(df, k, series) ==
    IF df = <<>> THEN <<>>
    ELSE IF isnull(Head(series)) THEN KeepValued(Tail(df), k, Tail(series))
    ELSE <<[idx |-> Head(df).idx, c |-> [Head(df).c EXCEPT ![k] = Head(series)]]>>
            \o KeepValued(Tail(df), k, Tail(series))

SetColumnDropping(df, k, series) == KeepValued(df, k, series)

SetColumnAll(df, k, series) ==
    [r \in 1..Len(df) |->
        [idx |-> df[r].idx, c |-> [j \in DOMAIN df[r].c |-> series[r]]]]

\* df.loc[:, column] = series (the series has the frame's own index).
SetColumn(df, k, series) ==
    [r \in 1..Len(df) |->
        [idx |-> df[r].idx, c |-> [df[r].c EXCEPT ![k] = series[r]]]]

NotNull(x) == ~isnull(x)

\* The non-missing cells of a series, in row order (skipna).
Present(series) == SelectSeq(series, NotNull)

HasText(series) == \E r \in DOMAIN series : series[r].t = "str"

RECURSIVE SumV(_)
SumV(series) == IF series = <<>> THEN 0 ELSE Head(series).v + SumV(Tail(series))

\* Order of the values of one column: numbers by value, texts by Rank.
Rank(x) == CASE x.s = "x" -> 1 [] OTHER -> 0
Key(x) == IF x.t = "str" THEN Rank(x) ELSE x.v

RECURSIVE Insert(_, _)
Insert(x, sorted) ==
    IF sorted = <<>> THEN <<x>>
    ELSE IF Key(x) <= Key(Head(sorted)) THEN <<x>> \o sorted
    ELSE <<Head(sorted)>> \o Insert(x, Tail(sorted))

RECURSIVE Sorted(_)
Sorted(series) ==
    IF series = <<>> THEN <<>> ELSE Insert(Head(series), Sorted(Tail(series)))

\* Series.mean(): NaN for no values; raises TypeError on text.
\* The result is [err, val]: err = "" when the call returns val.
mean(series) ==
    LET p == Present(series) IN
    IF HasText(series) THEN [err |-> "TypeError", val |-> Null]
    ELSE IF p = <<>> THEN [err |-> "", val |-> Null]
    ELSE [err |-> "", val |-> Num(SumV(p) \div Len(p))]

\* Series.median(): the middle value, or the mean of the two middle values.
median(series) ==
    LET p == Sorted(Present(series))
        n == Len(p)
    IN  IF HasText(series) THEN [err |-> "TypeError", val |-> Null]
        ELSE IF n = 0 THEN [err |-> "", val |-> Null]
        ELSE IF n % 2 = 1 THEN [err |-> "", val |-> p[(n + 1) \div 2]]
        ELSE [err |-> "", val |->
                 Num((p[n \div 2].v + p[n \div 2 + 1].v) \div 2)]

Count(x, series) == Cardinality({r \in DOMAIN series : series[r] = x})

\* Series.mode()[0]: the most frequent non-missing value, the smallest one
\* on a tie (mode() returns the modes sorted); an empty mode() makes [0]
\* raise.
mode0(series) ==
    LET p == Sorted(Present(series))
        best == {r \in DOMAIN p :
                    \A q \in DOMAIN p : Count(p[q], p) <= Count(p[r], p)}
    IN  IF p = <<>> THEN [err |-> "KeyError", val |-> Null]
        ELSE [err |-> "", val |-> p[CHOOSE r \in best : \A q \in best : r <= q]]

\* Faulty variant of fillna: only the first NaN is replaced (limit=1).
FillnaFirst(series, value) ==
    [r \in DOMAIN series |->
        IF isnull(series[r]) /\ \A q \in 1..(r - 1) : ~isnull(series[q])
        THEN value ELSE series[r]]

\* Series.fillna(value): only NaN/None cells are replaced; a NaN value
\* replaces nothing.
fillna(series, value) ==
    [r \in DOMAIN series |-> IF isnull(series[r]) THEN value ELSE series[r]]

\* Faulty variants of dropna: without subset, a NaN in any column drops the row;
\* the result of dropna is not kept.
RECURSIVE DropnaAny(_, _)
DropnaAny(df, k) ==
    IF df = <<>> THEN <<>>
    ELSE IF \E j \in DOMAIN Head(df).c : isnull(Head(df).c[j])
         THEN DropnaAny(Tail(df), k)
         ELSE <<Head(df)>> \o DropnaAny(Tail(df), k)

DropnaLost(df, k) == df

\* DataFrame.dropna(subset=[column]): a new frame without the rows whose
\* cell in column k is NaN/None; the kept rows keep index label and order.
RECURSIVE dropna(_, _)
dropna(df, k) ==
    IF df = <<>> THEN <<>>
    ELSE IF isnull(Head(df).c[k]) THEN dropna(Tail(df), k)
    ELSE <<Head(df)>> \o dropna(Tail(df), k)

\* Series.ffill(): each NaN takes the last valid value before it.
RECURSIVE FillFrom(_, _)
FillFrom(series, last) ==
    IF series = <<>> THEN <<>>
    ELSE IF isnull(Head(series))
         THEN <<last>> \o FillFrom(Tail(series), last)
         ELSE <<Head(series)>> \o FillFrom(Tail(series), Head(series))

\* Faulty variant of ffill: a NaN is filled only when the entry just before it is
\* valid (limit=1).
FfillLimit1(series) ==
    [r \in DOMAIN series |->
        IF isnull(series[r]) /\ r > 1 THEN series[r - 1] ELSE series[r]]

\* Faulty variant of ffill: the leading NaN are filled backward as well.
FfillThenBfill(series) ==
    LET f == FillFrom(series, Null)
    IN  [r \in DOMAIN f |->
            IF isnull(f[r]) /\ \E q \in DOMAIN f : ~isnull(f[q])
            THEN f[CHOOSE q \in DOMAIN f :
                      ~isnull(f[q]) /\ \A p \in 1..(q - 1) : isnull(f[p])]
            ELSE f[r]]

ffill(series) == FillFrom(series, Null)

Reverse(series) == [r \in DOMAIN series |-> series[Len(series) + 1 - r]]

\* Series.bfill(): each NaN takes the next valid value after it.
bfill(series) == Reverse(FillFrom(Reverse(series), Null))

\* ------------------------------------------------------------------------
\* Series.interpolate(method=...).

Valid(series) == {r \in DOMAIN series : NotNull(series[r])}

\* The valid position nearest before / after position r.
PrevValid(series, r) ==
    CHOOSE i \in Valid(series) : i < r /\ \A q \in Valid(series) : q < r => q <= i
NextValid(series, r) ==
    CHOOSE j \in Valid(series) : j > r /\ \A q \in Valid(series) : q > r => q >= j

HasPrev(series, r) == \E i \in Valid(series) : i < r
HasNext(series, r) == \E j \in Valid(series) : j > r

\* The straight line through (x1, y1) and (x2, y2), taken at x.
OnLine(x1, y1, x2, y2, x) == Num(y1.v + ((y2.v - y1.v) * (x - x1)) \div (x2 - x1))

\* method='linear' (numpy.interp over row positions 0, 1, 2, ...): NaN
\* before the first valid value stays, NaN after the last valid value takes
\* that value (limit_direction defaults to forward).
InterpLinear(series) ==
    [r \in DOMAIN series |->
        IF NotNull(series[r]) \/ ~HasPrev(series, r) THEN series[r]
        ELSE IF ~HasNext(series, r) THEN series[PrevValid(series, r)]
        ELSE LET i == PrevValid(series, r)
                 j == NextValid(series, r)
             IN  OnLine(i, series[i], j, series[j], r)]

\* The scipy methods interpolate over the index labels x and give NaN
\* outside the span of the valid points.
InterpScipy(series, x, method) ==
    [r \in DOMAIN series |->
        IF NotNull(series[r]) \/ ~HasPrev(series, r) \/ ~HasNext(series, r)
        THEN series[r]
        ELSE LET i == PrevValid(series, r)
                 j == NextValid(series, r)
             IN  CASE method = "nearest" ->
                        IF x[r] - x[i] <= x[j] - x[r] THEN series[i] ELSE series[j]
                   [] method = "slinear" ->
                        OnLine(x[i], series[i], x[j], series[j], x[r])
                   [] OTHER -> Spline]

\* The fewest valid points scipy.interpolate.interp1d accepts.
MinPoints(method) ==
    CASE method = "nearest" -> 1
      [] method = "slinear" -> 2
      [] method = "quadratic" -> 3
      [] method = "cubic" -> 4
      [] OTHER -> 0

\* The outcomes of series.interpolate(method): a set of [err, val].  A
\* series with no NaN or only NaN is returned as it is.  On a text column
\* the outcome depends on the pandas release: the series unchanged, or a
\* TypeError.
interpolate(series, x, method) ==
    IF HasText(series)
    THEN {[err |-> "", val |-> series], [err |-> "TypeError", val |-> series]}
    ELSE IF Valid(series) = {} \/ Valid(series) = DOMAIN series
    THEN {[err |-> "", val |-> series]}
    ELSE IF method = "linear"
    THEN {[err |-> "", val |-> InterpLinear(series)]}
    ELSE IF Cardinality(Valid(series)) < MinPoints(method)
    THEN {[err |-> "ValueError", val |-> series]}
    ELSE {[err |-> "", val |-> InterpScipy(series, x, method)]}

\* ------------------------------------------------------------------------
\* parameter_config.ini and the ConfigParser read from it.

config_file == "parameter_config.ini"

\* The sections a file may hold: one per column name.
SectionNames == {strip(Header[k]) : k \in 1..NumCols}

\* The values of the strategy key in a file; NoOption: the section has no
\* strategy key.
NoOption == "<no strategy key>"
Strategies ==
    {"mean", "median", "mode", "zero", "remove", "ffill", "bfill",
     "nearest", "linear", "slinear", "quadratic", "cubic"}
StrategyTexts == Strategies \cup {"MEAN", "Bogus", NoOption}

\* A ConfigParser: its sections and the strategy text of each.
EmptyConfig == [sections |-> {}, strategy |-> <<>>]

Configs ==
    UNION {{[sections |-> S, strategy |-> f] : f \in [S -> StrategyTexts]} :
              S \in SUBSET SectionNames}

\* The file: readable with a content, missing (it cannot be opened), or
\* malformed (its syntax does not parse).
ConfigFiles ==
    {[status |-> "ok", content |-> c] : c \in Configs}
        \cup {[status |-> st, content |-> EmptyConfig] : st \in {"missing", "malformed"}}

\* str.lower() on the strategy texts.
lower(txt) ==
    CASE txt = "MEAN" -> "mean"
      [] txt = "Bogus" -> "bogus"
      [] OTHER -> txt

\* ------------------------------------------------------------------------
\* Outcomes, log records and the state of a run.

NoFrame == <<>>
Unset == [kind |-> "unset", rows |-> NoFrame]
None == [kind |-> "None", rows |-> NoFrame]
Frame(df) == [kind |-> "frame", rows |-> df]

NoName == <<>>
\* A line of the log: its severity and what the message names.
Record(level, event, column, strategy, error) ==
    [level |-> level, event |-> event, column |-> column,
     strategy |-> strategy, error |-> error]

VARIABLES
    csv,         \* data/data.csv
    cfgFile,     \* parameter_config.ini
    data,        \* the frame `data` of __main__
    columns,     \* data.columns
    config,      \* the ConfigParser read_config returned
    df,          \* the local `df` of input_missing_data
    shared,      \* TRUE while `df` is the object `data`
    i,           \* position of the loop over df.columns
    df_cleaned,  \* what input_missing_data returned
    outFile,     \* data/cleaned_data.csv as written by this run
    log,         \* data_cleaning.log
    stdout,      \* what the run printed
    pc           \* position of __main__

vars == <<csv, cfgFile, data, columns, config, df, shared, i, df_cleaned,
          outFile, log, stdout, pc>>

NoFile == <<>>

Init ==
    /\ csv = NoFile
    /\ cfgFile = [status |-> "unread", content |-> EmptyConfig]
    /\ data = NoFrame
    /\ columns = <<>>
    /\ config = EmptyConfig
    /\ df = NoFrame
    /\ shared = FALSE
    /\ i = 0
    /\ df_cleaned = Unset
    /\ outFile = [written |-> FALSE, rows |-> <<>>]
    /\ log = <<>>
    /\ stdout = <<>>
    /\ pc = "read_csv"

\* Lines 79-84: read the file found on disk, strip the column names.
ReadCsv ==
    /\ pc = "read_csv"
    /\ \E file \in CsvFiles :
          /\ csv' = file
          /\ data' = read_csv(file)
    /\ columns' = [k \in 1..NumCols |-> strip(Header[k])]
    /\ pc' = "read_config"
    /\ UNCHANGED <<cfgFile, config, df, shared, i, df_cleaned, outFile,
                   log, stdout>>

\* ConfigParser.read(path): a file that cannot be opened is skipped without
\* an error and leaves the parser empty; a file that does not parse raises.
ParserRead(file) ==
    CASE file.status = "ok" -> [err |-> "", val |-> file.content]
      [] file.status = "missing" -> [err |-> "", val |-> EmptyConfig]
      [] OTHER -> [err |-> "ParsingError", val |-> EmptyConfig]

\* read_config (lines 30-37) called at line 87.  On an exception it logs
\* and re-raises; __main__ does not catch it and the run ends there.
ReadConfig ==
    /\ pc = "read_config"
    /\ \E file \in ConfigFiles :
       LET r == ParserRead(file) IN
       /\ cfgFile' = file
       /\ IF r.err = ""
          THEN /\ config' = r.val
               /\ log' = Append(log, Record("INFO", "read config", NoName, "", ""))
               /\ df' = data
               /\ shared' = TRUE
               /\ i' = 1
               /\ pc' = "impute"
          ELSE /\ log' = Append(log, Record("ERROR", "read config", NoName, "", r.err))
               /\ pc' = "crashed"
               /\ UNCHANGED <<config, df, shared, i>>
    /\ UNCHANGED <<csv, data, columns, df_cleaned, outFile, stdout>>

\* ------------------------------------------------------------------------
\* input_missing_data, one column of the loop per step.

Labels(frame) == [r \in 1..Len(frame) |-> frame[r].idx]

Interpolations == {"nearest", "linear", "slinear", "quadratic", "cubic"}

\* Lines 52-70: the outcomes of the branch taken for `strategy` on column k
\* of `frame`, each [err, df]: err = "" and the frame after the branch, or
\* the exception raised and the frame as it was.
ApplyStrategy(frame, k, strategy) ==
    LET col == Column(frame, k)
        Filled(r) ==
            IF r.err = ""
            THEN [err |-> "", df |-> SetColumn(frame, k, fillna(col, r.val))]
            ELSE [err |-> r.err, df |-> frame]
    IN  CASE strategy = "mean" -> {Filled(mean(col))}
          [] strategy = "median" -> {Filled(median(col))}
          [] strategy = "mode" -> {Filled(mode0(col))}
          [] strategy = "zero" -> {Filled([err |-> "", val |-> Num(0)])}
          [] strategy = "remove" -> {[err |-> "", df |-> dropna(frame, k)]}
          [] strategy = "ffill" ->
                {[err |-> "", df |-> SetColumn(frame, k, ffill(col))]}
          [] strategy = "bfill" ->
                {[err |-> "", df |-> SetColumn(frame, k, bfill(col))]}
          [] strategy \in Interpolations ->
                {[err |-> o.err,
                  df |-> IF o.err = "" THEN SetColumn(frame, k, o.val) ELSE frame] :
                    o \in interpolate(col, Labels(frame), strategy)}
          [] OTHER -> {[err |-> "invalid strategy", df |-> frame]}

\* Line 49: column.strip() in config.sections().
Configured(cfg, column) == strip(column) \in cfg.sections

\* Line 50: config.get(section, 'strategy').lower().
GetStrategy(cfg, section) ==
    IF cfg.strategy[section] = NoOption
    THEN [err |-> "NoOptionError", val |-> ""]
    ELSE [err |-> "", val |-> lower(cfg.strategy[section])]

\* The body of the loop for column i when it ends normally with frame `new`
\* (lines 52-72): a branch other than remove writes into the object `df`,
\* which is `data` itself until a remove has rebound `df` to a new frame.
ColumnDone(strategy, new) ==
    /\ df' = new
    /\ shared' = (shared /\ strategy # "remove")
    /\ data' = IF shared /\ strategy # "remove" THEN new ELSE data
    /\ log' = Append(log, Record("INFO", "cleaned", columns[i], strategy, ""))
    /\ i' = i + 1
    /\ UNCHANGED <<df_cleaned, pc>>

\* Faulty variant of ColumnRaised: the error record names the last column of the
\* frame instead of the column being processed.
ColumnRaisedLast(strategy, error) ==
    /\ log' = Append(log, Record("ERROR", "inputting missing data",
                                 columns[NumCols], strategy, error))
    /\ df_cleaned' = None
    /\ pc' = "to_csv"
    /\ UNCHANGED <<data, df, shared, i>>

\* The except clause (lines 74-75): one error record naming `column`, and
\* the function ends without a return value.
ColumnRaised(strategy, error) ==
    /\ log' = Append(log, Record("ERROR", "inputting missing data", columns[i],
                                 strategy, error))
    /\ df_cleaned' = None
    /\ pc' = "to_csv"
    /\ UNCHANGED <<data, df, shared, i>>

\* One iteration of the loop at line 48.
ProcessColumn ==
    /\ pc = "impute"
    /\ i <= NumCols
    /\ IF Configured(config, columns[i])
       THEN LET s == GetStrategy(config, strip(columns[i])) IN
            IF s.err # ""
            THEN ColumnRaised("", s.err)
            ELSE \E o \in ApplyStrategy(df, i, s.val) :
                    IF o.err = ""
                    THEN ColumnDone(s.val, o.df)
                    ELSE ColumnRaised(s.val, o.err)
       ELSE /\ i' = i + 1
            /\ UNCHANGED <<data, df, shared, df_cleaned, log, pc>>
    /\ UNCHANGED <<csv, cfgFile, columns, config, outFile, stdout>>

\* Line 73: return df, assigned to df_cleaned at line 89.
Return ==
    /\ pc = "impute"
    /\ i > NumCols
    /\ df_cleaned' = Frame(df)
    /\ pc' = "to_csv"
    /\ UNCHANGED <<csv, cfgFile, data, columns, config, df, shared, i, outFile,
                   log, stdout>>

\* DataFrame.to_csv(path, index=False): the cells of the rows, in row order,
\* without the index labels.
to_csv(frame) == [r \in 1..Len(frame) |-> frame[r].c]

\* Lines 91-97: df_cleaned.to_csv(...); on None the attribute lookup raises
\* and the except clause reports the failure.  The write of a frame is
\* taken to succeed.
ToCsv ==
    /\ pc = "to_csv"
    /\ IF df_cleaned.kind = "frame"
       THEN /\ outFile' = [written |-> TRUE, rows |-> to_csv(df_cleaned.rows)]
            /\ log' = Append(log, Record("INFO", "completed", NoName, "", ""))
            /\ stdout' = Append(stdout, "Data cleaning process completed successfully!")
       ELSE /\ log' = Append(log, Record("ERROR", "failed", NoName, "", ""))
            /\ stdout' = Append(stdout, "etl task failed!!!")
            /\ UNCHANGED outFile
    /\ pc' = "done"
    /\ UNCHANGED <<csv, cfgFile, data, columns, config, df, shared, i, df_cleaned>>

Next == ReadCsv \/ ReadConfig \/ ProcessColumn \/ Return \/ ToCsv

Spec == Init /\ [][Next]_vars

\* ------------------------------------------------------------------------
\* The ffill and bfill branches (lines 63-66) on their own: a loaded frame,
\* and the two assignments applied to its columns in any order, at most
\* MaxApplications times.  The log keeps which was applied to which column.
MaxApplications == 3

FillInit ==
    /\ csv \in CsvFiles
    /\ cfgFile = [status |-> "unread", content |-> EmptyConfig]
    /\ data = read_csv(csv)
    /\ columns = [k \in 1..NumCols |-> strip(Header[k])]
    /\ config = EmptyConfig
    /\ df = read_csv(csv)
    /\ shared = FALSE
    /\ i = 0
    /\ df_cleaned = Unset
    /\ outFile = [written |-> FALSE, rows |-> <<>>]
    /\ log = <<>>
    /\ stdout = <<>>
    /\ pc = "fill"

\* Lines 63-64: df.loc[:, column] = df[column].ffill().
ApplyFfill ==
    /\ pc = "fill"
    /\ i < MaxApplications
    /\ \E k \in 1..NumCols :
          /\ df' = SetColumn(df, k, ffill(Column(df, k)))
          /\ log' = Append(log, Record("INFO", "cleaned", columns[k], "ffill", ""))
    /\ i' = i + 1
    /\ UNCHANGED <<csv, cfgFile, data, columns, config, shared, df_cleaned,
                   outFile, stdout, pc>>

\* Lines 65-66: df.loc[:, column] = df[column].bfill().
ApplyBfill ==
    /\ pc = "fill"
    /\ i < MaxApplications
    /\ \E k \in 1..NumCols :
          /\ df' = SetColumn(df, k, bfill(Column(df, k)))
          /\ log' = Append(log, Record("INFO", "cleaned", columns[k], "bfill", ""))
    /\ i' = i + 1
    /\ UNCHANGED <<csv, cfgFile, data, columns, config, shared, df_cleaned,
                   outFile, stdout, pc>>

FillNext == ApplyFfill \/ ApplyBfill

SpecFill == FillInit /\ [][FillNext]_vars

\* ------------------------------------------------------------------------
\* find_columns_with_missing_data (lines 17-21): the columns holding a
\* NaN/None or an empty string.  The run does not call it (line 81).
IsMissing(x) == isnull(x) \/ x = Str("")

find_columns_with_missing_data(frame, names) ==
    SelectSeq(names,
              LAMBDA name :
                 \E k \in DOMAIN names :
                    /\ names[k] = name
                    /\ \E r \in DOMAIN frame : IsMissing(frame[r].c[k]))

\* ------------------------------------------------------------------------
\* Vocabulary of the properties.

\* The dataset as loaded, before input_missing_data.
Source == read_csv(csv)

\* The call of input_missing_data has ended / the run has ended.
CallEnded == pc \in {"to_csv", "done"}
Returned == CallEnded /\ df_cleaned.kind = "frame"

\* The call ended in its except clause while processing column i.
Raised == CallEnded /\ i <= NumCols

\* The strategy the configuration gives column k, case-folded ("" if none).
StrategyOf(k) ==
    IF Configured(config, columns[k]) /\ config.strategy[strip(columns[k])] # NoOption
    THEN lower(config.strategy[strip(columns[k])])
    ELSE ""

ErrorRecords == {n \in DOMAIN log : log[n].event = "inputting missing data"}
CleanedRecords == {n \in DOMAIN log : log[n].event = "cleaned"}

\* C1: a strategy identifier outside the fixed set makes the call of
\* input_missing_data fail with an error naming the column and the
\* identifier, the run abort, and no output file be written.  The call
\* failing means that it does not return: df_cleaned is never assigned.
C1_InvalidStrategyFailsCall ==
    (Raised /\ StrategyOf(i) # "" /\ StrategyOf(i) \notin Strategies)
        => /\ df_cleaned = Unset
           /\ ~outFile.written
           /\ \E n \in ErrorRecords :
                 /\ log[n].column = columns[i]
                 /\ log[n].strategy = StrategyOf(i)

\* C2: read_config fails, with an error record, whenever the configuration
\* source cannot be opened or parsed, so the imputation pass never runs on
\* an unreadable source.
C2_UnreadableConfigFails ==
    cfgFile.status \in {"missing", "malformed"}
        => /\ pc = "crashed"
           /\ log[Len(log)].level = "ERROR"
           /\ log[Len(log)].event = "read config"

\* The configuration holds no remove strategy.
NoRemove == \A k \in 1..NumCols : StrategyOf(k) # "remove"

\* C3: with no remove in the configuration, the dataset input_missing_data
\* returns has the rows of the loaded dataset, as many and in the same
\* order, and so has the file written from it.
C3_RowsPreservedWithoutRemove ==
    (Returned /\ NoRemove)
        => /\ Labels(df_cleaned.rows) = Labels(Source)
           /\ (outFile.written => Len(outFile.rows) = Len(Source))

\* C3 witness: a run without remove that changed both columns of a dataset
\* of MaxRows rows and wrote it.
C3_Witness ==
    /\ pc = "done" /\ Returned /\ NoRemove /\ outFile.written
    /\ Len(Source) = MaxRows
    /\ \A k \in 1..NumCols : Column(df_cleaned.rows, k) # Column(Source, k)

\* The row of the loaded dataset that row r of `frame` comes from.
SourceRow(frame, r) == Source[frame[r].idx]

\* Column k is named by find_columns_with_missing_data.
HasMissing(frame, k) ==
    LET found == find_columns_with_missing_data(frame, columns)
    IN  \E n \in DOMAIN found : found[n] = columns[k]

HasValue(frame, k) == \E r \in DOMAIN frame : ~IsMissing(frame[r].c[k])

FillStrategies == {"mean", "median", "mode", "zero"}

\* C4 as stated: in the dataset input_missing_data returns, a column
\* configured with mean, median, mode or zero that had a non-missing value
\* in the loaded dataset holds no missing value (NaN/None or empty string).
C4_FilledColumnHasNoMissing ==
    Returned =>
        \A k \in 1..NumCols :
            (StrategyOf(k) \in FillStrategies /\ HasValue(Source, k))
                => ~HasMissing(df_cleaned.rows, k)

\* The rows of the loaded dataset still present when column k is processed:
\* those not dropped by a remove on a column before k.
PresentAt(k) ==
    SelectSeq(Source,
              LAMBDA row :
                 \A j \in 1..(k - 1) :
                    StrategyOf(j) = "remove" => ~isnull(row.c[j]))

\* C4 amended: the same, for a column that has a non-missing value among
\* the rows still present when it is processed.
C4_FilledColumnHasNoMissingAmended ==
    Returned =>
        \A k \in 1..NumCols :
            (StrategyOf(k) \in FillStrategies /\ HasValue(PresentAt(k), k))
                => ~HasMissing(df_cleaned.rows, k)

\* C4 witness: a returned dataset in which a fill strategy replaced a
\* missing value of a column, after a remove on an earlier column dropped
\* a row.
C4_Witness ==
    /\ Returned
    /\ \E k \in 1..NumCols :
          /\ StrategyOf(k) \in FillStrategies
          /\ Len(PresentAt(k)) < Len(Source)
          /\ \E r \in DOMAIN df_cleaned.rows :
                /\ isnull(SourceRow(df_cleaned.rows, r).c[k])
                /\ ~isnull(df_cleaned.rows[r].c[k])

\* The step of the loop that applies strategy s to column i and ends
\* normally.
StepOf(s) == pc = "impute" /\ i <= NumCols /\ StrategyOf(i) = s /\ i' = i + 1

\* C5: the remove step on column i drops from the frame every row whose
\* cell in column i is missing, whole, and keeps every other row with its
\* values, in the same relative order.
C5_RemoveDropsMissingRows ==
    [][StepOf("remove") =>
          LET Kept(row) == ~isnull(row.c[i])
          IN  df' = SelectSeq(df, Kept)]_vars

\* C5 witness: after a remove on the first column, one row dropped and two
\* kept.
C5_Witness ==
    /\ pc = "impute" /\ i = 2 /\ StrategyOf(1) = "remove"
    /\ Len(df) = 2 /\ Len(Source) = 3
    /\ \E r \in DOMAIN Source : isnull(Source[r].c[1])

\* C6: a column whose name is absent from the configuration keeps every
\* entry: in the caller's frame at all times, and in the returned dataset
\* for each row it still has.
C6_UnconfiguredColumnUntouched ==
    \A k \in 1..NumCols :
        (pc \notin {"read_csv", "read_config", "crashed"}
            /\ ~Configured(config, columns[k]))
        => /\ Column(data, k) = Column(Source, k)
           /\ Returned =>
                \A r \in DOMAIN df_cleaned.rows :
                    df_cleaned.rows[r].c[k] = SourceRow(df_cleaned.rows, r).c[k]

\* C6 witness: the first column filled by mean, the second absent from the
\* configuration and returned with its missing value.
C6_Witness ==
    /\ Returned
    /\ StrategyOf(1) = "mean"
    /\ ~Configured(config, columns[2])
    /\ Column(df_cleaned.rows, 1) # Column(Source, 1)
    /\ \E r \in DOMAIN df_cleaned.rows : isnull(df_cleaned.rows[r].c[2])

\* `new` is `old` with each missing entry replaced by the nearest
\* non-missing entry before it, where there is one.
ForwardFilled(old, new) ==
    /\ Len(new) = Len(old)
    /\ \A r \in DOMAIN old :
          IF ~isnull(old[r]) THEN new[r] = old[r]
          ELSE IF HasPrev(old, r) THEN new[r] = old[PrevValid(old, r)]
          ELSE isnull(new[r])

BackwardFilled(old, new) ==
    /\ Len(new) = Len(old)
    /\ \A r \in DOMAIN old :
          IF ~isnull(old[r]) THEN new[r] = old[r]
          ELSE IF HasNext(old, r) THEN new[r] = old[NextValid(old, r)]
          ELSE isnull(new[r])

\* The step changes nothing of the frame but column i.
OnlyColumnChanges ==
    /\ Labels(df') = Labels(df)
    /\ \A k \in 1..NumCols : k # i => Column(df', k) = Column(df, k)

\* C7: the ffill step replaces each missing entry of the column by the
\* nearest non-missing entry before it, leaves leading missing entries
\* missing and changes no other entry; bfill does the same from the next
\* non-missing entry, leaving trailing missing entries.
C7_FfillBfillPropagate ==
    [][/\ StepOf("ffill") =>
            ForwardFilled(Column(df, i), Column(df', i)) /\ OnlyColumnChanges
       /\ StepOf("bfill") =>
            BackwardFilled(Column(df, i), Column(df', i)) /\ OnlyColumnChanges]_vars

\* C7 witness: after ffill on the first column [NaN, v, NaN], the leading
\* NaN is still there and the last entry is v.
C7_Witness ==
    /\ pc = "impute" /\ i = 2 /\ StrategyOf(1) = "ffill"
    /\ Len(Source) = 3
    /\ isnull(Source[1].c[1]) /\ ~isnull(Source[2].c[1]) /\ isnull(Source[3].c[1])
    /\ isnull(df[1].c[1]) /\ df[3].c[1] = Source[2].c[1]

\* Strategy s has been applied to column k (SpecFill).
Applied(s, k) ==
    \E n \in DOMAIN log : log[n].strategy = s /\ log[n].column = columns[k]

\* C8: whatever ffill and bfill have been applied to the columns, in any
\* order and number, every entry that was non-missing is still there
\* unchanged, and applying ffill (bfill) again to a column that ffill (bfill)
\* has been applied to changes nothing.
C8_FillsKeepValuesAndAreIdempotent ==
    pc = "fill" =>
        /\ Labels(df) = Labels(data)
        /\ \A k \in 1..NumCols :
              /\ \A r \in DOMAIN data :
                    ~isnull(data[r].c[k]) => df[r].c[k] = data[r].c[k]
              /\ Applied("ffill", k) => ffill(Column(df, k)) = Column(df, k)
              /\ Applied("bfill", k) => bfill(Column(df, k)) = Column(df, k)

\* C8 witness: ffill then bfill then ffill on the first column, which had
\* leading and trailing missing entries around a value.
C8_Witness ==
    /\ pc = "fill" /\ Len(log) = 3
    /\ \A n \in DOMAIN log : log[n].column = columns[1]
    /\ log[1].strategy = "ffill" /\ log[2].strategy = "bfill"
    /\ log[3].strategy = "ffill"
    /\ Len(data) = 3
    /\ isnull(data[1].c[1]) /\ ~isnull(data[2].c[1]) /\ isnull(data[3].c[1])
    /\ \A r \in DOMAIN df : df[r].c[1] = data[2].c[1]

\* The position of a column name in the frame.
ColumnIndex(name) == CHOOSE k \in 1..NumCols : columns[k] = name

\* The fill value a mean or median strategy computes over `series`.
FillValue(s, series) == IF s = "mean" THEN mean(series).val ELSE median(series).val

\* C9: the columns are processed once each in column order, and in the
\* returned dataset a column filled by mean or median holds, in its missing
\* places, the value computed over the rows present when the column was
\* processed: all the rows not dropped by a remove on an EARLIER column,
\* those a LATER remove drops included.
C9_FillValueFollowsColumnOrder ==
    /\ \A m, n \in CleanedRecords :
          m < n => ColumnIndex(log[m].column) < ColumnIndex(log[n].column)
    /\ Returned =>
          \A k \in 1..NumCols :
              StrategyOf(k) \in {"mean", "median"} =>
                  LET value == FillValue(StrategyOf(k), Column(PresentAt(k), k))
                  IN  \A r \in DOMAIN df_cleaned.rows :
                         df_cleaned.rows[r].c[k] =
                            IF isnull(SourceRow(df_cleaned.rows, r).c[k])
                            THEN value
                            ELSE SourceRow(df_cleaned.rows, r).c[k]

\* The rows of the loaded dataset that the returned dataset still has.
Survivors == [r \in DOMAIN df_cleaned.rows |-> SourceRow(df_cleaned.rows, r)]

\* C9 witness: mean on the first column, then a remove on the second that
\* drops a row; the value filled into the first column is not the mean of
\* the rows that survived.
C9_Witness ==
    /\ Returned
    /\ StrategyOf(1) = "mean" /\ StrategyOf(2) = "remove"
    /\ Len(df_cleaned.rows) < Len(Source)
    /\ \E r \in DOMAIN df_cleaned.rows :
          /\ isnull(Survivors[r].c[1])
          /\ ~isnull(df_cleaned.rows[r].c[1])
          /\ df_cleaned.rows[r].c[1] # mean(Column(Survivors, 1)).val

\* C10: when the strategy of column i raises, the call returns None, the
\* log holds exactly one error record of input_missing_data, naming column
\* i, and informational records only for columns before i; the columns
\* after i are as loaded; and every column before i that was filled in the
\* caller's frame (no remove up to it) still holds its filled entries.
C10_RaiseIsLoggedAndSwallowed ==
    Raised =>
        /\ df_cleaned = None
        /\ Cardinality(ErrorRecords) = 1
        /\ \A n \in ErrorRecords :
              log[n].level = "ERROR" /\ log[n].column = columns[i]
        /\ \A n \in CleanedRecords : ColumnIndex(log[n].column) < i
        /\ \A k \in (i + 1)..NumCols :
              /\ Column(data, k) = Column(Source, k)
              /\ \A r \in DOMAIN df : df[r].c[k] = SourceRow(df, r).c[k]
        /\ \A k \in 1..(i - 1) :
              (Configured(config, columns[k])
                  /\ \A j \in 1..k : StrategyOf(j) # "remove")
              => \E o \in ApplyStrategy(Source, k, StrategyOf(k)) :
                    o.err = "" /\ Column(data, k) = Column(o.df, k)

\* C10 witness: the run has ended after the second column raised, the
\* first column having been filled in the caller's frame.
C10_Witness ==
    /\ pc = "done" /\ Raised /\ i = 2
    /\ StrategyOf(1) \in FillStrategies
    /\ Column(data, 1) # Column(Source, 1)
    /\ df_cleaned = None /\ ~outFile.written

====
